---- MODULE Spec2Model ----
(***************************************************************************)
(* Model of the two stateful components of void_engine:                    *)
(*   - substrate: the asynchronous GPU bootstrap (a oneshot channel filled *)
(*     by a task of the IO pool, polled once per Update by a system whose  *)
(*     commands are applied after the system has run);                     *)
(*   - core::memory: MemoryField, a bounded snapshot history mirrored to   *)
(*     an append-only file that is rotated into archives, and queried by   *)
(*     average() and trend().                                              *)
(***************************************************************************)
EXTENDS Integers, Sequences, FiniteSets, TLC

(* ---------------------------------------------------------------- bounds *)
\* Update schedules run by the foreground.
MaxTicks == 4
\* Largest capacity passed to MemoryField::new.
MaxCapacity == 2
\* Calls of record(), flush() and rotate() made on the log.
MaxOps == 3
\* I/O steps that fail in a run.
MaxFailures == 2
\* Last second of the clock.
MaxClock == 1
\* Longest history average() and trend() are applied to.
MaxHistory == 3
\* Largest window passed to average() and trend().
MaxWindow == 4
MaxRecords == 3

(* ------------------------------------------------------------- substrate *)
VARIABLES
    fg,          \* position of the foreground: the schedule about to run
    commands,    \* Commands queued by the system that ran, not yet applied
    pending,     \* the PendingGpuInit resource is in the world
    gpu_context, \* the GpuContext resource: <<>> or <<ctx>>
    chan,        \* the oneshot channel: sender, receiver, slot
    job,         \* position of the task spawned on the IoTaskPool
    job_result,  \* the task's `result` local: <<>> or <<result>>
    events,      \* number of info!/error! events emitted by the poller
    polls,       \* what each run of the poller got from try_recv, in order
    installs,    \* number of times a GpuContext resource was inserted
    ticks,       \* Update schedules completed
    dropped      \* the task's position when the App was dropped, "" while it lives

gpu_vars == <<fg, commands, pending, gpu_context, chan, job, job_result,
              events, polls, installs, ticks, dropped>>

\* The state of core::memory and of the file system it writes to.
VARIABLES
    phase,                 \* "unborn", "live" (a MemoryField exists), "none" (from_file gave None)
    history,               \* MemoryField.history
    max_snapshots,         \* MemoryField.max_snapshots
    base_path,             \* MemoryField.base_path
    writes_since_rotation, \* MemoryField.writes_since_rotation
    file,                  \* the file at base_path
    archives,              \* the files at the archive paths
    dirs,                  \* directories that exist
    now,                   \* SystemTime::now() in seconds
    created_by,            \* the constructor that built the log
    recorded,              \* every snapshot passed to record(), in order
    epoch,                 \* those passed since the last successful rotation (or creation)
    credit,                \* writes from_file counted for the loaded lines, until a rotation succeeds
    clean,                 \* the epoch began with no backing content and no I/O step failed in it
    rotations_ok,          \* no rotation has failed so far
    calls,                 \* number of flush() and rotate() calls made so far
    failures,              \* number of I/O steps that have failed so far
    last,                  \* the last call: what it was and how it went
    query,                 \* the last call of average() or trend(): arguments and result
    ledger                 \* the file found at construction, and the archive names of the
                           \* successful rotations in order

\* The log, its files and the record of the calls that change them.
log_fields == <<phase, history, max_snapshots, base_path, writes_since_rotation, file,
                archives, dirs, now, created_by, recorded, epoch, credit, clean, rotations_ok,
                calls, failures, last, ledger>>

log_vars == <<log_fields, query>>

\* The state of the MemoryField of core/mod.rs, the revision without rotation.
VARIABLES
    memory_field,          \* the resource: [history, max_snapshots]
    void_state_json,       \* what record() has appended to "void_state.json"
    integrated,            \* the snapshots record() has pushed, in order
    core_phase             \* "live", or "panicked" once record() has panicked

core_vars == <<memory_field, void_state_json, integrated, core_phase>>

vars == <<gpu_vars, log_vars, core_vars>>

\* GpuContext values, told apart by adapter_name.
Contexts == {"adapterA", "adapterB"}

\* GpuInitError.
GpuInitErrors == {"NoAdapter", "RequestDevice"}

\* Result<GpuContext, GpuInitError>.
OkResult(ctx) == [tag |-> "Ok", val |-> ctx]
ErrResult(err) == [tag |-> "Err", val |-> err]
InitResults == {OkResult(c) : c \in Contexts} \cup {ErrResult(e) : e \in GpuInitErrors}

\* oneshot::channel(): both halves alive, nothing in the slot.
NewChannel == [tx_alive |-> TRUE, rx_alive |-> TRUE, slot |-> <<>>]

\* Before start_gpu_initialization has run there is no channel.
NoChannel == [tx_alive |-> FALSE, rx_alive |-> FALSE, slot |-> <<>>]

\* try_recv confusing "nothing yet" with "sender gone".
TryRecvEmptyIsClosed(ch) ==
    IF ch.slot # <<>>
    THEN [tag |-> "some", val |-> ch.slot, chan |-> [ch EXCEPT !.slot = <<>>]]
    ELSE [tag |-> "closed", val |-> <<>>, chan |-> ch]

\* try_recv that never notices a dropped sender.
TryRecvNeverClosed(ch) ==
    IF ch.slot # <<>>
    THEN [tag |-> "some", val |-> ch.slot, chan |-> [ch EXCEPT !.slot = <<>>]]
    ELSE [tag |-> "none", val |-> <<>>, chan |-> ch]

\* Receiver::try_recv as the poller's match reads it: the value when one is in
\* the slot (taking it), "none" while the sender is alive, "closed" once the
\* sender is gone and the slot holds nothing.
TryRecv(ch) ==
    IF ch.slot # <<>>
    THEN [tag |-> "some", val |-> ch.slot, chan |-> [ch EXCEPT !.slot = <<>>]]
    ELSE IF ch.tx_alive
         THEN [tag |-> "none", val |-> <<>>, chan |-> ch]
         ELSE [tag |-> "closed", val |-> <<>>, chan |-> ch]

\* send leaving the sender usable for another send.
SenderSendKeepsSender(ch, v) ==
    IF ch.rx_alive
    THEN [ch EXCEPT !.slot = <<v>>]
    ELSE ch

\* send writing the slot of a channel whose receiver is gone.
SenderSendIgnoresReceiver(ch, v) ==
    [ch EXCEPT !.tx_alive = FALSE, !.slot = <<v>>]

\* Sender::send consumes the sender; the value reaches the slot only while the
\* receiver is alive, otherwise it is handed back and dropped by `let _ =`.
SenderSend(ch, v) ==
    IF ch.rx_alive
    THEN [ch EXCEPT !.tx_alive = FALSE, !.slot = <<v>>]
    ELSE [ch EXCEPT !.tx_alive = FALSE]

InsertPending == [op |-> "insert_pending", val |-> ""]
RemovePending == [op |-> "remove_pending", val |-> ""]
InsertContext(ctx) == [op |-> "insert_context", val |-> ctx]

NoEvents == [ready |-> 0, init_failed |-> 0, closed |-> 0]

GpuInit ==
    /\ fg = "startup"
    /\ commands = <<>>
    /\ pending = FALSE
    /\ gpu_context = <<>>
    /\ chan = NoChannel
    /\ job = "unspawned"
    /\ job_result = <<>>
    /\ events = NoEvents
    /\ polls = <<>>
    /\ installs = 0
    /\ ticks = 0
    /\ dropped = ""

\* The Startup system: creates the channel, spawns the task, queues the
\* insertion of the receiver as a resource.
StartGpuInitialization ==
    /\ fg = "startup"
    /\ chan' = NewChannel
    /\ job' = "request_adapter"
    /\ commands' = <<InsertPending>>
    /\ fg' = "startup_deferred"
    /\ UNCHANGED <<pending, gpu_context, job_result, events, polls, installs, ticks, dropped>>
    /\ UNCHANGED log_vars
    /\ UNCHANGED core_vars

\* insert_resource installing a context of its own making instead of the one
\* the command carries.
ApplyCommandInstallsOther(w, c) ==
    IF c.op = "insert_pending" THEN [w EXCEPT !.pending = TRUE]
    ELSE IF c.op = "insert_context"
    THEN [w EXCEPT !.ctx = <<CHOOSE x \in Contexts : x # c.val>>, !.installs = @ + 1]
    ELSE IF w.pending
         THEN [w EXCEPT !.pending = FALSE, !.chan.rx_alive = FALSE, !.chan.slot = <<>>]
         ELSE w

\* One queued command applied to the world w (the resources and the channel
\* the receiver belongs to).
ApplyCommand(w, c) ==
    IF c.op = "insert_pending" THEN [w EXCEPT !.pending = TRUE]
    ELSE IF c.op = "insert_context"
    THEN [w EXCEPT !.ctx = <<c.val>>, !.installs = @ + 1]
    ELSE \* remove_resource::<PendingGpuInit>: dropping it drops the receiver
         IF w.pending
         THEN [w EXCEPT !.pending = FALSE, !.chan.rx_alive = FALSE, !.chan.slot = <<>>]
         ELSE w

RECURSIVE ApplyCommands(_, _)
ApplyCommands(w, cs) ==
    IF cs = <<>> THEN w ELSE ApplyCommands(ApplyCommand(w, Head(cs)), Tail(cs))

\* The command queue of the schedule that ran is applied, in order, before the
\* next schedule runs.
ApplyDeferred ==
    /\ fg \in {"startup_deferred", "update_deferred"}
    /\ LET w == ApplyCommands([pending |-> pending, ctx |-> gpu_context, chan |-> chan,
                               installs |-> installs], commands)
       IN /\ pending' = w.pending
          /\ gpu_context' = w.ctx
          /\ chan' = w.chan
          /\ installs' = w.installs
    /\ commands' = <<>>
    /\ fg' = "update"
    /\ ticks' = IF fg = "update_deferred" THEN ticks + 1 ELSE ticks
    /\ UNCHANGED <<job, job_result, events, polls, dropped>>
    /\ UNCHANGED log_vars
    /\ UNCHANGED core_vars

\* The poller forgetting remove_resource in its Ok arm.
PollOutcomeOkKeepsCell(r) ==
    IF r.tag = "some" /\ Head(r.val).tag = "Ok"
    THEN [cmds |-> <<InsertContext(Head(r.val).val)>>,
          events |-> [events EXCEPT !.ready = @ + 1]]
    ELSE IF r.tag = "some"
    THEN [cmds |-> <<RemovePending>>,
          events |-> [events EXCEPT !.init_failed = @ + 1]]
    ELSE IF r.tag = "none"
    THEN [cmds |-> <<>>, events |-> events]
    ELSE [cmds |-> <<RemovePending>>,
          events |-> [events EXCEPT !.closed = @ + 1]]

\* The poller forgetting remove_resource in its Err arm.
PollOutcomeErrKeepsCell(r) ==
    IF r.tag = "some" /\ Head(r.val).tag = "Ok"
    THEN [cmds |-> <<InsertContext(Head(r.val).val), RemovePending>>,
          events |-> [events EXCEPT !.ready = @ + 1]]
    ELSE IF r.tag = "some"
    THEN [cmds |-> <<>>,
          events |-> [events EXCEPT !.init_failed = @ + 1]]
    ELSE IF r.tag = "none"
    THEN [cmds |-> <<>>, events |-> events]
    ELSE [cmds |-> <<RemovePending>>,
          events |-> [events EXCEPT !.closed = @ + 1]]

\* The poller giving up the cell when it finds nothing yet.
PollOutcomeNoneRemovesCell(r) ==
    IF r.tag = "some" /\ Head(r.val).tag = "Ok"
    THEN [cmds |-> <<InsertContext(Head(r.val).val), RemovePending>>,
          events |-> [events EXCEPT !.ready = @ + 1]]
    ELSE IF r.tag = "some"
    THEN [cmds |-> <<RemovePending>>,
          events |-> [events EXCEPT !.init_failed = @ + 1]]
    ELSE IF r.tag = "none"
    THEN [cmds |-> <<RemovePending>>, events |-> events]
    ELSE [cmds |-> <<RemovePending>>,
          events |-> [events EXCEPT !.closed = @ + 1]]

\* The poller forgetting remove_resource in its closed-channel arm.
PollOutcomeClosedKeepsCell(r) ==
    IF r.tag = "some" /\ Head(r.val).tag = "Ok"
    THEN [cmds |-> <<InsertContext(Head(r.val).val), RemovePending>>,
          events |-> [events EXCEPT !.ready = @ + 1]]
    ELSE IF r.tag = "some"
    THEN [cmds |-> <<RemovePending>>,
          events |-> [events EXCEPT !.init_failed = @ + 1]]
    ELSE IF r.tag = "none"
    THEN [cmds |-> <<>>, events |-> events]
    ELSE [cmds |-> <<>>,
          events |-> [events EXCEPT !.closed = @ + 1]]

\* What poll_gpu_initialization does with the outcome r of try_recv.
PollOutcome(r) ==
    IF r.tag = "some" /\ Head(r.val).tag = "Ok"
    THEN [cmds |-> <<InsertContext(Head(r.val).val), RemovePending>>,
          events |-> [events EXCEPT !.ready = @ + 1]]
    ELSE IF r.tag = "some"
    THEN [cmds |-> <<RemovePending>>,
          events |-> [events EXCEPT !.init_failed = @ + 1]]
    ELSE IF r.tag = "none"
    THEN [cmds |-> <<>>, events |-> events]
    ELSE [cmds |-> <<RemovePending>>,
          events |-> [events EXCEPT !.closed = @ + 1]]

\* The Update system.
PollGpuInitialization ==
    /\ fg = "update"
    /\ ticks < MaxTicks
    /\ fg' = "update_deferred"
    /\ IF ~pending
       THEN /\ polls' = Append(polls, [tag |-> "absent", val |-> <<>>, job |-> job])
            /\ UNCHANGED <<commands, chan, events>>
       ELSE LET r == TryRecv(chan)
                o == PollOutcome(r)
            IN /\ chan' = r.chan
               /\ commands' = o.cmds
               /\ events' = o.events
               /\ polls' = Append(polls, [tag |-> r.tag, val |-> r.val, job |-> job])
    /\ UNCHANGED <<pending, gpu_context, job, job_result, installs, ticks, dropped>>
    /\ UNCHANGED log_vars
    /\ UNCHANGED core_vars

\* GpuContext::initialize up to its first await: no adapter ends it with
\* NoAdapter.
JobRequestAdapter ==
    /\ job = "request_adapter"
    /\ \/ /\ job_result' = <<ErrResult("NoAdapter")>>
          /\ job' = "send"
       \/ /\ job' = "request_device"
          /\ UNCHANGED job_result
    /\ UNCHANGED <<fg, commands, pending, gpu_context, chan, events, polls, installs, ticks,
                   dropped>>
    /\ UNCHANGED log_vars
    /\ UNCHANGED core_vars

\* The second await: the device request fails or the context is built.
JobRequestDevice ==
    /\ job = "request_device"
    /\ \E r \in {ErrResult("RequestDevice")} \cup {OkResult(c) : c \in Contexts} :
          job_result' = <<r>>
    /\ job' = "send"
    /\ UNCHANGED <<fg, commands, pending, gpu_context, chan, events, polls, installs, ticks,
                   dropped>>
    /\ UNCHANGED log_vars
    /\ UNCHANGED core_vars

\* `let _ = sender.send(result);`
JobSend ==
    /\ job = "send"
    /\ chan' = SenderSend(chan, Head(job_result))
    /\ job' = "sent"
    /\ UNCHANGED <<fg, commands, pending, gpu_context, job_result, events, polls, installs, ticks,
                   dropped>>
    /\ UNCHANGED log_vars
    /\ UNCHANGED core_vars

\* The Task returned by spawn is dropped at once, which cancels a task that has
\* not finished (as does a panic inside it): the future is dropped at an await
\* point and its sender with it, nothing having been sent.
JobCancelled ==
    /\ job \in {"request_adapter", "request_device"}
    /\ job' = "cancelled"
    /\ chan' = [chan EXCEPT !.tx_alive = FALSE]
    /\ UNCHANGED <<fg, commands, pending, gpu_context, job_result, events, polls, installs, ticks,
                   dropped>>
    /\ UNCHANGED log_vars
    /\ UNCHANGED core_vars

\* app.run() returns once an update has completed and the App is dropped with
\* its world: the resources go, the receiver with PendingGpuInit. The task
\* pool is a static that outlives the App, so the task may still be running.
AppRun ==
    /\ fg = "update"
    /\ ticks >= 1
    /\ fg' = "exited"
    /\ dropped' = job
    /\ pending' = FALSE
    /\ gpu_context' = <<>>
    /\ chan' = IF pending THEN [chan EXCEPT !.rx_alive = FALSE, !.slot = <<>>] ELSE chan
    /\ UNCHANGED <<commands, job, job_result, events, polls, installs, ticks>>
    /\ UNCHANGED log_vars
    /\ UNCHANGED core_vars

(* ----------------------------------------------------------- core::memory *)
\* serde_json::Value: a number or a value of another type (a string).
JNum(n) == [kind |-> "number", val |-> n]
JStr == [kind |-> "string", val |-> 0]

\* A snapshot is a JSON object; the model tells snapshots apart by a field x.
\* The n-th call of record() is given Snapshot(n), so that every snapshot
\* recorded can be told from the others.
Snapshot(n) == [x |-> JNum(n)]

\* One line of a file: what serde_json::to_string wrote for a snapshot, text
\* that is no JSON value, or a line of white space.
Serialize(s) == [kind |-> "json", val |-> s]
Malformed == [kind |-> "garbage", val |-> Snapshot(0)]
Blank == [kind |-> "blank", val |-> Snapshot(0)]

\* serde_json::from_str of a non-blank line: <<value>>, or <<>> on an error.
Parse(l) == IF l.kind = "json" THEN <<l.val>> ELSE <<>>

\* A path of the file system holds no file, or a file of lines.
NoFile == [exists |-> FALSE, lines |-> <<>>]
EmptyFile == [exists |-> TRUE, lines |-> <<>>]
FileOf(ls) == [exists |-> TRUE, lines |-> ls]

\* DEFAULT_MEMORY_PATH, and its file_stem.
DefaultPath == [dir |-> "", stem |-> "void_state", ext |-> "json"]
\* Path::file_stem.
Stem(path) == path.stem

\* format!("{}-{}.json", stem, timestamp): a file of the working directory.
ArchiveName(stem, timestamp) == [dir |-> "", stem |-> stem, suffix |-> timestamp]

\* A path a caller of rotate() chose, inside a directory.
ManualArchive == [dir |-> "archive", stem |-> "manual", suffix |-> 0]

\* Seconds the clock can show.
Clock == 0..MaxClock
ArchivePaths == {ArchiveName(Stem(DefaultPath), t) : t \in Clock} \cup {ManualArchive}

\* The paths the owner of the log passes to rotate().
CallerPaths == {ManualArchive, ArchiveName(Stem(DefaultPath), 0)}

\* 1 for an I/O outcome that is a failure.
Failed(io) == IF io \in {"ok", "none"} THEN 0 ELSE 1

\* max_snapshots of a log restored by from_file.
FromFileCapacity == 512
\* max_snapshots of MemoryField::default().
DefaultCapacity == 512

Min(a, b) == IF a < b THEN a ELSE b
Max(a, b) == IF a > b THEN a ELSE b


\* No call of average() or trend() has been made.
NoQuery == [op |-> "none", key |-> "", window |-> 0, result |-> <<>>]

NoCall == [op |-> "none", rot |-> "none", archive |-> ManualArchive, append |-> "none",
           epoch |-> <<>>, credit |-> 0, clean |-> FALSE, evicted |-> FALSE,
           capacity |-> 0, pushed |-> <<>>]

\* Files that may sit at the path when the process starts.
ShortFiles ==
    {NoFile, EmptyFile, FileOf(<<Serialize(Snapshot(7))>>),
     FileOf(<<Serialize(Snapshot(8)), Malformed, Blank, Serialize(Snapshot(9))>>)}
LongFiles ==
    {FileOf([i \in 1..n |-> Serialize(Snapshot(0))]) :
        n \in {FromFileCapacity, FromFileCapacity + 1}}
InitialFiles == ShortFiles \cup LongFiles

\* The file system and the bookkeeping before a log is constructed.
Unborn(f) ==
    /\ file = f
    /\ archives = [a \in ArchivePaths |-> NoFile]
    /\ dirs = {}
    /\ now = 0
    /\ recorded = <<>>
    /\ epoch = <<>>
    /\ calls = 0
    /\ failures = 0
    /\ query = NoQuery
    /\ ledger = [initial |-> f, names |-> <<>>]

\* new taking the capacity as given, without max(1).
NewKeepsZero(capacity) ==
    /\ phase = "live"
    /\ history = <<>>
    /\ max_snapshots = capacity
    /\ base_path = DefaultPath
    /\ writes_since_rotation = 0
    /\ created_by = "new"
    /\ credit = 0
    /\ clean = (file.lines = <<>>)
    /\ rotations_ok = TRUE
    /\ last = [NoCall EXCEPT !.op = "new", !.capacity = capacity]

\* MemoryField::new.
New(capacity) ==
    /\ phase = "live"
    /\ history = <<>>
    /\ max_snapshots = Max(capacity, 1)
    /\ base_path = DefaultPath
    /\ writes_since_rotation = 0
    /\ created_by = "new"
    /\ credit = 0
    /\ clean = (file.lines = <<>>)
    /\ rotations_ok = TRUE
    /\ last = [NoCall EXCEPT !.op = "new", !.capacity = capacity]

\* The loop of from_file giving up at the first line that does not parse.
LoadLinesStopsAtMalformed(ls) ==
    LET bad == {i \in DOMAIN ls : ls[i].kind # "blank" /\ Parse(ls[i]) = <<>>}
        stop == IF bad = {} THEN Len(ls) + 1 ELSE CHOOSE i \in bad : \A j \in bad : i <= j
        Loads(l) == l.kind # "blank" /\ Parse(l) # <<>>
        good == SelectSeq(SubSeq(ls, 1, stop - 1), Loads)
    IN [i \in 1..Len(good) |-> Head(Parse(good[i]))]

\* The loop of from_file over the lines read: blank lines and lines that do not
\* parse are passed over, the others are pushed in file order.
LoadLines(ls) ==
    LET Loads(l) == l.kind # "blank" /\ Parse(l) # <<>>
        good == SelectSeq(ls, Loads)
    IN [i \in 1..Len(good) |-> Head(Parse(good[i]))]

\* from_file leaving the counter of a restored log at 0.
FromFileCounterZero(path, io) ==
    /\ IF ~file.exists \/ io # "ok"
       THEN /\ phase = "none"
            /\ history = <<>>
            /\ max_snapshots = 0
            /\ base_path = path
            /\ writes_since_rotation = 0
            /\ created_by = "nobody"
            /\ credit = 0
       ELSE /\ phase = "live"
            /\ history = LoadLines(file.lines)
            /\ max_snapshots = FromFileCapacity
            /\ base_path = path
            /\ writes_since_rotation = 0
            /\ created_by = "from_file"
            /\ credit = 0
    /\ clean = FALSE
    /\ rotations_ok = TRUE
    /\ last = [NoCall EXCEPT !.op = "from_file", !.append = io]

\* MemoryField::from_file: None when the file cannot be opened or a line cannot
\* be read.
FromFile(path, io) ==
    /\ IF ~file.exists \/ io # "ok"
       THEN /\ phase = "none"
            /\ history = <<>>
            /\ max_snapshots = 0
            /\ base_path = path
            /\ writes_since_rotation = 0
            /\ created_by = "nobody"
            /\ credit = 0
       ELSE /\ phase = "live"
            /\ history = LoadLines(file.lines)
            /\ max_snapshots = FromFileCapacity
            /\ base_path = path
            /\ writes_since_rotation = Min(Len(LoadLines(file.lines)), FromFileCapacity)
            /\ created_by = "from_file"
            /\ credit = Min(Len(LoadLines(file.lines)), FromFileCapacity)
    /\ clean = FALSE
    /\ rotations_ok = TRUE
    /\ last = [NoCall EXCEPT !.op = "from_file", !.append = io]

\* The log after its construction: by new over a file left by an earlier run,
\* or by from_file.
LogInit ==
    \/ \E f \in ShortFiles, capacity \in 0..MaxCapacity : Unborn(f) /\ New(capacity)
    \/ \E f \in InitialFiles, io \in {"ok", "open_failed", "read_failed"} :
          Unborn(f) /\ FromFile(DefaultPath, io)

\* The log as MemoryField::default builds it; it plays no part in the
\* bootstrap, and conversely.
LogIdle == Unborn(NoFile) /\ New(DefaultCapacity)

\* Eviction dropping the snapshot just pushed instead of the oldest.
PushEvictNewest(h, cap, s) ==
    IF Len(h) + 1 > cap THEN h ELSE Append(h, s)

\* Eviction emptying the history around the snapshot just pushed.
PushEvictClears(h, cap, s) ==
    IF Len(h) + 1 > cap THEN <<s>> ELSE Append(h, s)

\* The push of record() and the eviction that follows it.
PushEvict(h, cap, s) ==
    IF Len(h) + 1 > cap THEN Tail(Append(h, s)) ELSE Append(h, s)

\* append_snapshot opening the file truncated instead of for appending.
AppendSnapshotTruncates(f, s, io) ==
    IF io = "open_failed" THEN f
    ELSE IF io = "write_failed" THEN EmptyFile
    ELSE FileOf(<<Serialize(s)>>)

\* append_snapshot writing its line at the head of the file.
AppendSnapshotPrepends(f, s, io) ==
    IF io = "open_failed" THEN f
    ELSE IF io = "write_failed" THEN FileOf(f.lines)
    ELSE FileOf(<<Serialize(s)>> \o f.lines)

\* append_snapshot: the file is opened (created when missing) for appending
\* and gets one line; a failed write leaves no bytes behind.
AppendSnapshot(f, s, io) ==
    IF io = "open_failed" THEN f
    ELSE IF io = "write_failed" THEN FileOf(f.lines)
    ELSE FileOf(Append(f.lines, Serialize(s)))

AppendOutcomes == {"ok", "open_failed", "write_failed"}

\* write_all opening the file for appending instead of truncating it.
WriteAllAppends(f, h, io, k) ==
    IF io = "open_failed" THEN f
    ELSE IF io = "write_failed" THEN FileOf(f.lines \o [i \in 1..k |-> Serialize(h[i])])
    ELSE FileOf(f.lines \o [i \in 1..Len(h) |-> Serialize(h[i])])

\* write_all: the file is opened truncated and every snapshot of the history
\* is written in order; a write that fails leaves the k lines written so far
\* (flush lets the first or the last write fail).
WriteAll(f, h, io, k) ==
    IF io = "open_failed" THEN f
    ELSE IF io = "write_failed" THEN FileOf([i \in 1..k |-> Serialize(h[i])])
    ELSE FileOf([i \in 1..Len(h) |-> Serialize(h[i])])

\* The failures the steps of rotate_internal can meet for this archive path.
RotateOutcomes(path, f) ==
    {"ok", "create_failed"}
    \cup (IF path.dir # "" THEN {"mkdir_failed"} ELSE {})
    \cup (IF f.exists THEN {"rename_failed"} ELSE {})

\* rotate_internal that starts the base file anew without renaming the old one.
RotateInternalKeepsFile(st, path, io) ==
    LET st1 == IF path.dir # "" THEN [st EXCEPT !.dirs = @ \cup {path.dir}] ELSE st
        st3 == [st1 EXCEPT !.history = <<>>]
        st4 == [st3 EXCEPT !.file = EmptyFile]
    IN IF path.dir # "" /\ io = "mkdir_failed" THEN [ok |-> FALSE, st |-> st]
       ELSE IF st1.file.exists /\ io = "rename_failed" THEN [ok |-> FALSE, st |-> st1]
       ELSE IF io = "create_failed" THEN [ok |-> FALSE, st |-> st3]
       ELSE [ok |-> TRUE, st |-> st4]

\* rotate_internal clearing the history before its first fallible step.
RotateInternalClearsFirst(st, path, io) ==
    LET st0 == [st EXCEPT !.history = <<>>]
        st1 == IF path.dir # "" THEN [st0 EXCEPT !.dirs = @ \cup {path.dir}] ELSE st0
        st2 == IF st1.file.exists
               THEN [st1 EXCEPT !.archives[path] = st1.file, !.file = NoFile]
               ELSE st1
        st4 == [st2 EXCEPT !.file = EmptyFile]
    IN IF path.dir # "" /\ io = "mkdir_failed" THEN [ok |-> FALSE, st |-> st0]
       ELSE IF st1.file.exists /\ io = "rename_failed" THEN [ok |-> FALSE, st |-> st1]
       ELSE IF io = "create_failed" THEN [ok |-> FALSE, st |-> st2]
       ELSE [ok |-> TRUE, st |-> st4]

\* rotate_internal without history.clear().
RotateInternalKeepsHistory(st, path, io) ==
    LET st1 == IF path.dir # "" THEN [st EXCEPT !.dirs = @ \cup {path.dir}] ELSE st
        st2 == IF st1.file.exists
               THEN [st1 EXCEPT !.archives[path] = st1.file, !.file = NoFile]
               ELSE st1
        st4 == [st2 EXCEPT !.file = EmptyFile]
    IN IF path.dir # "" /\ io = "mkdir_failed" THEN [ok |-> FALSE, st |-> st]
       ELSE IF st1.file.exists /\ io = "rename_failed" THEN [ok |-> FALSE, st |-> st1]
       ELSE IF io = "create_failed" THEN [ok |-> FALSE, st |-> st2]
       ELSE [ok |-> TRUE, st |-> st4]

\* rotate_internal leaving an archive behind even when there was no base file
\* to rename.
RotateInternalAlwaysArchives(st, path, io) ==
    LET st1 == IF path.dir # "" THEN [st EXCEPT !.dirs = @ \cup {path.dir}] ELSE st
        st2 == [st1 EXCEPT !.archives[path] = FileOf(st1.file.lines), !.file = NoFile]
        st3 == [st2 EXCEPT !.history = <<>>]
        st4 == [st3 EXCEPT !.file = EmptyFile]
    IN IF path.dir # "" /\ io = "mkdir_failed" THEN [ok |-> FALSE, st |-> st]
       ELSE IF st1.file.exists /\ io = "rename_failed" THEN [ok |-> FALSE, st |-> st1]
       ELSE IF io = "create_failed" THEN [ok |-> FALSE, st |-> st3]
       ELSE [ok |-> TRUE, st |-> st4]

\* rotate_internal on st = [history, file, archives, dirs]: the parent
\* directory is created, an existing base file is renamed to the archive path
\* (taking the place of a file already there), the history is cleared and the
\* base file is created anew. Each `?` returns at the step that failed.
RotateInternal(st, path, io) ==
    LET st1 == IF path.dir # "" THEN [st EXCEPT !.dirs = @ \cup {path.dir}] ELSE st
        st2 == IF st1.file.exists
               THEN [st1 EXCEPT !.archives[path] = st1.file, !.file = NoFile]
               ELSE st1
        st3 == [st2 EXCEPT !.history = <<>>]
        st4 == [st3 EXCEPT !.file = EmptyFile]
    IN IF path.dir # "" /\ io = "mkdir_failed" THEN [ok |-> FALSE, st |-> st]
       ELSE IF st1.file.exists /\ io = "rename_failed" THEN [ok |-> FALSE, st |-> st1]
       ELSE IF io = "create_failed" THEN [ok |-> FALSE, st |-> st3]
       ELSE [ok |-> TRUE, st |-> st4]

\* rotate leaving the counter as it was whatever rotate_internal returned.
RotateNeverResets(st, wsr, path, io) ==
    LET r == RotateInternal(st, path, io)
    IN [ok |-> r.ok, st |-> r.st, wsr |-> wsr]

\* rotate resetting the counter whatever rotate_internal returned.
RotateAlwaysResets(st, wsr, path, io) ==
    LET r == RotateInternal(st, path, io)
    IN [ok |-> r.ok, st |-> r.st, wsr |-> 0]

\* rotate: the counter is reset when rotate_internal returned Ok.
Rotate(st, wsr, path, io) ==
    LET r == RotateInternal(st, path, io)
    IN [ok |-> r.ok, st |-> r.st, wsr |-> IF r.ok THEN 0 ELSE wsr]

\* A call that unwraps the io::Result instead of logging its error.
AfterCallUnwraps(ph, io) == IF Failed(io) = 1 THEN "panicked" ELSE ph

\* record(), flush() and rotate() match on the io::Result of their I/O step:
\* an Err is logged by error! and the call returns; the log lives on.
AfterCall(ph, io) == ph

\* A write counted only when its append succeeded.
CountWriteOnlyOnSuccess(wsr, io) == IF io = "ok" THEN wsr + 1 ELSE wsr

\* record() counts the write after append_snapshot has returned io, whose error
\* is logged and dropped.
CountWrite(wsr, io) == wsr + 1

\* The test written with > for >=.
RotationDueOffByOne(wsr, cap) == wsr > cap

\* The test of record() that decides whether to rotate, on the counter just
\* incremented.
RotationDue(wsr, cap) == wsr >= cap

LogState == [history |-> history, file |-> file, archives |-> archives, dirs |-> dirs]

\* MemoryField::record. A call that rotates reads the clock, which shows the
\* second of the last reading or a later one.
Record ==
    /\ phase = "live"
    /\ Len(recorded) + calls < MaxOps
    /\ \E ioA \in AppendOutcomes, t \in now..MaxClock :
         LET s == Snapshot(Len(recorded) + 1)
             h1 == PushEvict(history, max_snapshots, s)
             f1 == AppendSnapshot(file, s, ioA)
             w1 == CountWrite(writes_since_rotation, ioA)
             name == ArchiveName(Stem(base_path), t)
             st1 == [LogState EXCEPT !.history = h1, !.file = f1]
             ep == Append(epoch, s)
         IN /\ recorded' = Append(recorded, s)
            /\ IF RotationDue(w1, max_snapshots)
               THEN \E ioR \in RotateOutcomes(name, f1) :
                      LET r == Rotate(st1, w1, name, ioR)
                          cl == clean /\ ioA = "ok" /\ r.ok
                      IN /\ failures + Failed(ioA) + Failed(ioR) <= MaxFailures
                         /\ failures' = failures + Failed(ioA) + Failed(ioR)
                         /\ now' = t
                         /\ history' = r.st.history
                         /\ file' = r.st.file
                         /\ archives' = r.st.archives
                         /\ dirs' = r.st.dirs
                         /\ writes_since_rotation' = r.wsr
                         /\ epoch' = IF r.ok THEN <<>> ELSE ep
                         /\ credit' = IF r.ok THEN 0 ELSE credit
                         /\ clean' = r.ok
                         /\ rotations_ok' = (rotations_ok /\ r.ok)
                         /\ phase' = AfterCall(AfterCall(phase, ioA), ioR)
                         /\ ledger' = IF r.ok THEN [ledger EXCEPT !.names = Append(@, name)]
                                       ELSE ledger
                         /\ last' = [op |-> "record", rot |-> IF r.ok THEN "ok" ELSE ioR,
                                     archive |-> name, append |-> ioA, epoch |-> ep,
                                     credit |-> credit, clean |-> cl,
                                     evicted |-> Len(history) + 1 > max_snapshots,
                                     capacity |-> 0, pushed |-> h1]
               ELSE /\ failures + Failed(ioA) <= MaxFailures
                    /\ failures' = failures + Failed(ioA)
                    /\ history' = h1
                    /\ file' = f1
                    /\ writes_since_rotation' = w1
                    /\ epoch' = ep
                    /\ clean' = (clean /\ ioA = "ok")
                    /\ last' = [op |-> "record", rot |-> "none", archive |-> NoCall.archive,
                                append |-> ioA, epoch |-> ep, credit |-> credit,
                                clean |-> clean /\ ioA = "ok",
                                evicted |-> Len(history) + 1 > max_snapshots,
                                capacity |-> 0, pushed |-> h1]
                    /\ phase' = AfterCall(phase, ioA)
                    /\ UNCHANGED <<archives, dirs, credit, rotations_ok, now, ledger>>
    /\ UNCHANGED <<max_snapshots, base_path, created_by, calls, query>>
    /\ UNCHANGED gpu_vars
    /\ UNCHANGED core_vars

\* MemoryField::flush.
Flush ==
    /\ phase = "live"
    /\ Len(recorded) + calls < MaxOps
    /\ calls' = calls + 1
    /\ \E io \in AppendOutcomes, k \in {0, Len(history) - 1} :
         /\ (io = "write_failed") => (k >= 0 /\ k < Len(history))
         /\ (io # "write_failed") => k = 0
         /\ failures + Failed(io) <= MaxFailures
         /\ failures' = failures + Failed(io)
         /\ file' = WriteAll(file, history, io, k)
         /\ phase' = AfterCall(phase, io)
         /\ clean' = (clean /\ io = "ok")
         /\ last' = [NoCall EXCEPT !.op = "flush", !.append = io, !.epoch = epoch,
                                   !.credit = credit, !.clean = clean /\ io = "ok"]
    /\ UNCHANGED <<history, max_snapshots, base_path, writes_since_rotation,
                   archives, dirs, now, created_by, recorded, epoch, credit,
                   rotations_ok, query, ledger>>
    /\ UNCHANGED gpu_vars
    /\ UNCHANGED core_vars

\* MemoryField::rotate called with a path of the caller's choosing.
RotateCall ==
    /\ phase = "live"
    /\ Len(recorded) + calls < MaxOps
    /\ calls' = calls + 1
    /\ \E path \in CallerPaths : \E io \in RotateOutcomes(path, file) :
         LET r == Rotate(LogState, writes_since_rotation, path, io)
         IN /\ failures + Failed(io) <= MaxFailures
            /\ failures' = failures + Failed(io)
            /\ history' = r.st.history
            /\ file' = r.st.file
            /\ archives' = r.st.archives
            /\ dirs' = r.st.dirs
            /\ writes_since_rotation' = r.wsr
            /\ epoch' = IF r.ok THEN <<>> ELSE epoch
            /\ credit' = IF r.ok THEN 0 ELSE credit
            /\ clean' = r.ok
            /\ rotations_ok' = (rotations_ok /\ r.ok)
            /\ phase' = AfterCall(phase, io)
            /\ ledger' = IF r.ok THEN [ledger EXCEPT !.names = Append(@, path)] ELSE ledger
            /\ last' = [NoCall EXCEPT !.op = "rotate", !.rot = IF r.ok THEN "ok" ELSE io,
                                      !.archive = path, !.epoch = epoch,
                                      !.credit = credit, !.clean = clean /\ r.ok]
    /\ UNCHANGED <<max_snapshots, base_path, now, created_by, recorded, query>>
    /\ UNCHANGED gpu_vars
    /\ UNCHANGED core_vars

(* ------------------------------------------ core: the earlier MemoryField *)
\* The readings record() is called with: coherence, entropy, energy.
Readings == {[coherence |-> 0, entropy |-> 1, energy |-> 0],
             [coherence |-> 1, entropy |-> 0, energy |-> 1]}

\* MemorySnapshot.
MemorySnapshot(r, t) ==
    [coherence |-> r.coherence, entropy |-> r.entropy, energy |-> r.energy, timestamp |-> t]

\* The capacity core::init gives the resource it inserts.
CoreInitCapacity == 10

\* MemoryField::new of core/mod.rs: the capacity is taken as given.
CoreNew(capacity) == [history |-> <<>>, max_snapshots |-> capacity]

\* The derived Default: an empty Vec and a usize of 0.
CoreDefault == [history |-> <<>>, max_snapshots |-> 0]

\* The resource as constructed, before any record(): by Default, by new, or
\* by the struct literal of core::init.
CoreInit ==
    /\ memory_field \in {CoreDefault, CoreNew(CoreInitCapacity)}
                         \cup {CoreNew(c) : c \in 0..MaxCapacity}
    /\ void_state_json = <<>>
    /\ integrated = <<>>
    /\ core_phase = "live"

\* The resource left as Default builds it, where it plays no part.
CoreIdle ==
    /\ memory_field = CoreDefault
    /\ void_state_json = <<>>
    /\ integrated = <<>>
    /\ core_phase = "live"

\* A push that leaves a full history as it is and drops the new snapshot.
CorePushRefusesWhenFull(h, cap, s) ==
    IF Len(h) + 1 > cap THEN h ELSE Append(h, s)

\* The push of record() and the removal of index 0 once the length exceeds
\* max_snapshots.
CorePush(h, cap, s) ==
    IF Len(Append(h, s)) > cap THEN Tail(Append(h, s)) ELSE Append(h, s)

\* The append to "void_state.json": the file that cannot be opened is left
\* alone, a failed write leaves no bytes behind, and neither failure is
\* reported.
CoreAppend(f, s, io) ==
    IF io = "ok" THEN Append(f, s) ELSE f

\* What duration_since(UNIX_EPOCH) returns: Ok of the time since the epoch, or
\* Err when the clock stands before it.
CoreClock == {"since_epoch", "before_epoch"}

\* MemoryField::record of core/mod.rs. The unwrap of the timestamp panics, ahead
\* of the push, when the clock stands before the epoch.
CoreRecord ==
    /\ core_phase = "live"
    /\ Len(integrated) < MaxRecords
    /\ \E r \in Readings, clock \in CoreClock, t \in 0..MaxClock,
          io \in {"ok", "open_failed", "write_failed"} :
          IF clock = "before_epoch"
          THEN /\ core_phase' = "panicked"
               /\ UNCHANGED <<memory_field, void_state_json, integrated>>
          ELSE LET snapshot == MemorySnapshot(r, t)
               IN /\ memory_field' =
                        [memory_field EXCEPT
                           !.history = CorePush(@, memory_field.max_snapshots, snapshot)]
                  /\ void_state_json' = CoreAppend(void_state_json, snapshot, io)
                  /\ integrated' = Append(integrated, snapshot)
                  /\ UNCHANGED core_phase
    /\ UNCHANGED gpu_vars
    /\ UNCHANGED log_vars

CoreNext == CoreRecord

\* The earlier MemoryField alone.
CoreStart == GpuInit /\ LogIdle /\ CoreInit

CoreSpec == CoreStart /\ [][CoreNext]_vars

(* ------------------------------------------------- core::memory: queries *)
\* Value::get(key): <<value>> for a field of the object, <<>> when it has none.
Get(snapshot, key) == IF key \in DOMAIN snapshot THEN <<snapshot[key]>> ELSE <<>>

\* Value::as_f64: <<n>> for a number (the integers of the model are exact in
\* f64), <<>> for any other value.
AsF64(value) == IF value.kind = "number" THEN <<value.val>> ELSE <<>>

\* snapshot.get(key) then as_f64, as both functions chain them.
NumberAt(snapshot, key) ==
    LET v == Get(snapshot, key)
    IN IF v = <<>> THEN <<>> ELSE AsF64(Head(v))

\* An f32 has a significand of 24 bits: the integers below 2^24 are exact.
F32Significand == 16777216

Abs(n) == IF n < 0 THEN -n ELSE n

\* The gap between the f32 values around the magnitude m.
RECURSIVE Ulp(_)
Ulp(m) == IF m < F32Significand THEN 1 ELSE 2 * Ulp(m \div 2)

\* `num as f32` on an integer-valued f64: the nearest f32, ties to even.
AsF32(n) ==
    LET m == Abs(n)
        q == Ulp(m)
        down == (m \div q) * q
        rem == m - down
        r == IF 2 * rem < q THEN down
             ELSE IF 2 * rem > q THEN down + q
             ELSE IF (down \div q) % 2 = 0 THEN down ELSE down + q
    IN IF n < 0 THEN -r ELSE r

\* f32 addition and subtraction: the exact result, rounded.
F32Add(a, b) == AsF32(a + b)
F32Sub(a, b) == AsF32(a - b)

\* usize::saturating_sub.
SaturatingSub(a, b) == IF a > b THEN a - b ELSE 0

\* The loop of average() from the record at index i (from 1) to the last.
RECURSIVE AverageLoop(_, _, _, _)
AverageLoop(h, key, i, acc) ==
    IF i > Len(h) THEN acc
    ELSE LET num == NumberAt(h[i], key)
         IN AverageLoop(h, key, i + 1,
                IF num = <<>> THEN acc
                ELSE [sum |-> F32Add(acc.sum, AsF32(Head(num))), count |-> acc.count + 1])

\* average() taking the window as given, without window.max(1).
AverageUnclampedWindow(h, key, window) ==
    LET start == SaturatingSub(Len(h), window)
        acc == AverageLoop(h, key, start + 1, [sum |-> 0, count |-> 0])
    IN IF acc.count > 0 THEN <<acc>> ELSE <<>>

\* MemoryField::average. Some(sum / count) is <<[sum, count]>>, the quotient
\* standing as the fraction that the f32 division rounds; count, an f32 too,
\* is exact below 2^24. None is <<>>.
Average(h, key, window) ==
    LET w == Max(window, 1)
        start == SaturatingSub(Len(h), w)
        acc == AverageLoop(h, key, start + 1, [sum |-> 0, count |-> 0])
    IN IF acc.count > 0 THEN <<acc>> ELSE <<>>

\* trend() measured from the oldest record of the history.
TrendFromOldest(h, key, window) ==
    IF window < 2 \/ Len(h) < 2 THEN <<>>
    ELSE LET first == NumberAt(h[1], key)
             lst == NumberAt(h[Len(h)], key)
         IN IF first = <<>> \/ lst = <<>> THEN <<>>
            ELSE <<F32Sub(AsF32(Head(lst)), AsF32(Head(first)))>>

\* MemoryField::trend: <<last - first>>, or <<>> for None.
Trend(h, key, window) ==
    IF window < 2 \/ Len(h) < 2 THEN <<>>
    ELSE LET w == Min(window, Len(h))
             start == Len(h) - w
             first == NumberAt(h[start + 1], key)
             lst == NumberAt(h[Len(h)], key)
         IN IF first = <<>> \/ lst = <<>> THEN <<>>
            ELSE <<F32Sub(AsF32(Head(lst)), AsF32(Head(first)))>>

\* The snapshots the queries are applied to: a number at x (small, or one
\* that no f32 holds), a string at x, no field x.
QueryNumbers == {1, 5, F32Significand + 1}
QuerySnapshots == {[x |-> JNum(n)] : n \in QueryNumbers} \cup {[x |-> JStr], [y |-> JNum(1)]}
Histories == UNION {[1..n -> QuerySnapshots] : n \in 0..MaxHistory}
Keys == {"x", "y"}
Windows == 0..MaxWindow

\* A log built by new that has recorded the snapshots of h, no rotation having
\* come due and no I/O step having failed.
Holding(h) ==
    /\ phase = "live"
    /\ history = h
    /\ max_snapshots = MaxHistory + 1
    /\ base_path = DefaultPath
    /\ writes_since_rotation = Len(h)
    /\ file = IF h = <<>> THEN NoFile ELSE FileOf([i \in 1..Len(h) |-> Serialize(h[i])])
    /\ archives = [a \in ArchivePaths |-> NoFile]
    /\ dirs = {}
    /\ now = 0
    /\ created_by = "new"
    /\ recorded = h
    /\ epoch = h
    /\ credit = 0
    /\ clean = TRUE
    /\ rotations_ok = TRUE
    /\ calls = 0
    /\ failures = 0
    /\ last = IF h = <<>> THEN [NoCall EXCEPT !.op = "new", !.capacity = MaxHistory + 1]
              ELSE [NoCall EXCEPT !.op = "record", !.pushed = h]
    /\ query = NoQuery
    /\ ledger = [initial |-> NoFile, names |-> <<>>]

\* MemoryField::latest: history.last(), <<>> for None.
Latest(h) == IF Len(h) = 0 THEN <<>> ELSE <<h[Len(h)]>>

\* A call of latest().
LatestCall ==
    /\ phase = "live"
    /\ query' = [op |-> "latest", key |-> "", window |-> 0, result |-> Latest(history)]
    /\ UNCHANGED log_fields
    /\ UNCHANGED gpu_vars
    /\ UNCHANGED core_vars

\* A call of average(): &self, so the log is left as it is.
AverageCall ==
    /\ phase = "live"
    /\ \E key \in Keys, window \in Windows :
          query' = [op |-> "average", key |-> key, window |-> window,
                    result |-> Average(history, key, window)]
    /\ UNCHANGED log_fields
    /\ UNCHANGED gpu_vars
    /\ UNCHANGED core_vars

\* A call of trend().
TrendCall ==
    /\ phase = "live"
    /\ \E key \in Keys, window \in Windows :
          query' = [op |-> "trend", key |-> key, window |-> window,
                    result |-> Trend(history, key, window)]
    /\ UNCHANGED log_fields
    /\ UNCHANGED gpu_vars
    /\ UNCHANGED core_vars

QueryNext ==
    \/ AverageCall
    \/ TrendCall
    \/ LatestCall

\* The queries alone, on every history of the bounds.
QueryStart == GpuInit /\ CoreIdle /\ \E h \in Histories : Holding(h)

QuerySpec == QueryStart /\ [][QueryNext]_vars

LogNext ==
    \/ Record
    \/ Flush
    \/ RotateCall

\* The log alone: the bootstrap stays as constructed.
LogStart == LogInit /\ GpuInit /\ CoreIdle

LogSpec == LogStart /\ [][LogNext]_vars

GpuNext ==
    \/ StartGpuInitialization
    \/ ApplyDeferred
    \/ PollGpuInitialization
    \/ JobRequestAdapter
    \/ JobRequestDevice
    \/ JobSend
    \/ JobCancelled
    \/ AppRun

\* The bootstrap alone: the log stays as constructed.
GpuStart == GpuInit /\ LogIdle /\ CoreIdle

GpuSpec == GpuStart /\ [][GpuNext]_vars

\* The steps of the foreground: the schedules the runner keeps running.
Foreground == StartGpuInitialization \/ ApplyDeferred \/ PollGpuInitialization

\* The bootstrap under a runner that runs the next schedule whenever there is
\* one to run; nothing is assumed of the task or of the end of app.run().
GpuFairSpec == GpuSpec /\ WF_vars(Foreground)

Next == GpuNext \/ LogNext \/ QueryNext \/ CoreNext

Init == GpuInit /\ LogInit /\ CoreInit

Spec == Init /\ [][Next]_vars

(* ---------------------------------------------------- core::memory claims *)
\* The last n elements of a sequence.
LastN(seq, n) == SubSeq(seq, Len(seq) - n + 1, Len(seq))
\* The file that holds the lines of these snapshots and nothing else.
FileOfSnapshots(ss) == FileOf([i \in 1..Len(ss) |-> Serialize(ss[i])])
\* Only record() has been called on a log built by new.
OnlyRecordsSinceNew == phase = "live" /\ created_by = "new" /\ calls = 0
\* The call described by `last` is a record() that tried to rotate.
RotationAttempted == last.op = "record" /\ last.rot # "none"

\* C3 as stated: after N record() calls on a log built by new with capacity C
\* (no rotation failing), len() = min(N, C) and the history is the last
\* min(N, C) snapshots recorded.
C3_Original ==
    (OnlyRecordsSinceNew /\ rotations_ok) =>
        /\ Len(history) = Min(Len(recorded), max_snapshots)
        /\ history = LastN(recorded, Min(Len(recorded), max_snapshots))

\* C3 amended: after N record() calls on a log built by new with capacity C,
\* the history is the last len() snapshots recorded, in order, with
\* len() <= min(N, C); when every rotation succeeded len() = N mod C, the
\* rotation at every C-th write having cleared the history.
C3_HistoryIsSuffix ==
    OnlyRecordsSinceNew =>
        /\ Len(history) <= Min(Len(recorded), max_snapshots)
        /\ history = LastN(recorded, Len(history))
        /\ rotations_ok => Len(history) = Len(recorded) % max_snapshots

C3_Witness ==
    /\ OnlyRecordsSinceNew
    /\ max_snapshots = 2
    /\ Len(recorded) = 3
    /\ history = <<Snapshot(3)>>

\* C4: len() <= capacity in every state of a log.
C4_LenWithinCapacity == phase = "live" => Len(history) <= max_snapshots

\* The conclusion of C5 about the call described by `last`.
C5_Rotated ==
    /\ archives[last.archive] = FileOfSnapshots(last.epoch)
    /\ history = <<>>
    /\ file = EmptyFile
    /\ writes_since_rotation = 0

C6_Original ==
    (phase = "live" /\ created_by = "new" /\ last.op = "record") =>
        (last.rot # "none" <=> Len(last.epoch) = max_snapshots)

\* C6 amended: a record() triggers rotate exactly when the writes since the
\* last successful rotation (or since creation, a log restored by from_file
\* counting min(loaded, capacity) more) have reached capacity; the clock only
\* gives the archive its name.
C6_RotationIsCountTriggered ==
    (phase = "live" /\ last.op = "record") =>
        /\ last.rot # "none" <=> Len(last.epoch) + last.credit >= max_snapshots
        /\ last.rot # "none" => last.archive = ArchiveName(Stem(base_path), now)

C6_Witness ==
    /\ phase = "live" /\ RotationAttempted
    /\ created_by = "new"
    /\ Len(last.epoch) = 3
    /\ max_snapshots = 2

\* A call was made in this step, so that last' describes it.
CallMade == recorded' # recorded \/ calls' # calls

\* C7: a rotate that fails leaves the counter as it was (in record(), as
\* incremented, hence still >= capacity); a record() made while the counter is
\* at or above capacity tries to rotate; and a call leaves the counter at 0 only
\* when it rotated with every step succeeding or did not touch a counter that
\* was 0.
C7_FailedRotationKeepsCounter ==
    [][CallMade =>
        /\ last'.rot \notin {"none", "ok"} =>
             /\ last'.op = "rotate" => writes_since_rotation' = writes_since_rotation
             /\ last'.op = "record" =>
                  /\ writes_since_rotation' = writes_since_rotation + 1
                  /\ writes_since_rotation' >= max_snapshots
        /\ (recorded' # recorded /\ writes_since_rotation >= max_snapshots) =>
             last'.rot # "none"
        /\ writes_since_rotation' = 0 =>
             \/ last'.rot = "ok"
             \/ (last'.op # "record" /\ writes_since_rotation = 0)
      ]_vars

C7_Witness ==
    /\ phase = "live" /\ last.op = "record" /\ last.rot = "ok"
    /\ Len(last.epoch) > max_snapshots
    /\ writes_since_rotation = 0

\* C8, for the rotations record() triggers when no I/O step fails and the owner
\* makes no call of flush() or rotate(): a step leaves every existing archive
\* as it is.
C8_ArchivesNeverReplaced ==
    [][(calls' = 0 /\ failures' = 0) =>
         \A a \in ArchivePaths : archives[a].exists => archives'[a] = archives[a]]_vars

(* ------------------------------------------------------ substrate claims *)
PollIndexes == DOMAIN polls
ValuePolls == {i \in PollIndexes : polls[i].tag = "some"}
ClosedPolls == {i \in PollIndexes : polls[i].tag = "closed"}
ErrorPolls == {i \in ValuePolls : Head(polls[i].val).tag = "Err"}
\* Polls that resolved the cell: a value or a closed channel.
ResolvingPolls == ValuePolls \cup ClosedPolls
Reports == events.init_failed + events.closed

\* C1: a poll made before the task has sent never yields a value; at most one
\* poll yields a value, it yields the task's result, and only "none" was seen
\* before it; a poll made once the task has sent finds the result delivered by
\* itself or by an earlier poll (the result is not lost), and no poll after the
\* delivering one takes anything.
C1_TakeExactlyOnce ==
    /\ \A i \in PollIndexes : polls[i].job # "sent" => polls[i].tag # "some"
    /\ Cardinality(ValuePolls) <= 1
    /\ \A i \in ValuePolls :
          /\ polls[i].val = job_result
          /\ \A j \in 1..(i - 1) : polls[j].tag = "none"
          /\ \A j \in (i + 1)..Len(polls) : polls[j].tag = "absent"
    /\ \A i \in PollIndexes :
          polls[i].job = "sent" => \E j \in 1..i : polls[j].tag = "some"

C1_Witness ==
    /\ Len(polls) >= 4
    /\ polls[1].tag = "none" /\ polls[2].tag = "none"
    /\ polls[3].tag = "some" /\ polls[4].tag = "absent"

\* C2: context installations plus error reports never exceed one; once a poll
\* has resolved the cell and its commands are applied, the total is exactly one
\* (installations counted when applied), the cell is gone, and every later poll
\* found no cell and did nothing.
C2_TerminalAfterResolution ==
    /\ installs + Reports <= 1
    /\ events.ready + Reports = Cardinality(ResolvingPolls)
    /\ \A i \in ResolvingPolls :
          /\ \A j \in (i + 1)..Len(polls) : polls[j].tag = "absent"
          /\ fg = "update" => (~pending /\ installs + Reports = 1)

C2_Witness ==
    /\ fg = "update"
    /\ \E i \in ResolvingPolls : Len(polls) >= i + 2
    /\ installs = 1

\* C9: a poll of the cell made after the task was cancelled (its sender dropped,
\* nothing sent) gets "closed", never "none"; it is reported once as a closed
\* channel and, its commands applied, the cell is gone.
C9_ClosedChannelReported ==
    /\ \A i \in PollIndexes :
          polls[i].job = "cancelled" => polls[i].tag \in {"closed", "absent"}
    /\ \A i \in ClosedPolls :
          /\ polls[i].job = "cancelled"
          /\ events.closed = 1
          /\ i = Len(polls) =>
               commands = (IF fg \in {"update", "exited"} THEN <<>> ELSE <<RemovePending>>)
          /\ fg = "update" => ~pending
    /\ \A i \in PollIndexes :
          polls[i].tag = "absent" => \E j \in 1..(i - 1) : j \in ResolvingPolls

C9_Witness ==
    /\ fg = "update"
    /\ ~pending
    /\ \E i \in ClosedPolls : i >= 2 /\ polls[i - 1].tag = "none" /\ Len(polls) > i

\* C10: when a poll takes an Err result it is reported exactly once, the cell
\* is removed when the commands are applied, no GpuContext is ever inserted,
\* and the foreground, while the App runs, can still take its next step.
C10_InitErrorLeavesContextAbsent ==
    /\ events.init_failed = Cardinality(ErrorPolls)
    /\ (job_result # <<>> /\ Head(job_result).tag = "Err") =>
          (gpu_context = <<>> /\ installs = 0)
    /\ \A i \in ErrorPolls :
          /\ events.init_failed = 1
          /\ gpu_context = <<>> /\ installs = 0
          /\ fg = "update" => ~pending
          /\ \A j \in (i + 1)..Len(polls) : polls[j].tag = "absent"
          /\ (ticks < MaxTicks /\ fg # "exited") =>
               ENABLED (PollGpuInitialization \/ ApplyDeferred)

C10_Witness ==
    /\ fg = "update"
    /\ gpu_context = <<>>
    /\ \E i \in ErrorPolls : Len(polls) >= i + 2

\* Positions of a task that has neither sent nor been cancelled.
Unfinished == {"request_adapter", "request_device", "send"}
JobStep == JobRequestAdapter \/ JobRequestDevice \/ JobSend \/ JobCancelled

\* C11: when the App was dropped, and the receiver with it, while the task was
\* still to complete, the task is never stuck (its send is enabled although no
\* receiver is left, and so is every step before it), the value it sends is
\* dropped, and nothing is installed, reported or queued: the foreground's
\* record stays that of polls that found nothing.
C11_DiscardedCellSendIsNoOp ==
    dropped \in Unfinished =>
        /\ ~chan.rx_alive /\ chan.slot = <<>>
        /\ job \in Unfinished \cup {"sent", "cancelled"}
        /\ job = "send" => ENABLED JobSend
        /\ job \in Unfinished => ENABLED JobStep
        /\ job = "sent" => (~chan.tx_alive /\ job_result # <<>>)
        /\ ~pending /\ gpu_context = <<>> /\ installs = 0
        /\ events = NoEvents /\ commands = <<>>
        /\ \A i \in PollIndexes : polls[i].tag = "none"

C11_Witness ==
    /\ dropped = "request_adapter"
    /\ job = "sent"
    /\ Head(job_result).tag = "Ok"
    /\ Len(polls) >= 2

\* The foreground has a poll still to run.
PollToCome ==
    /\ fg # "exited"
    /\ IF fg = "update_deferred" THEN ticks + 1 < MaxTicks ELSE ticks < MaxTicks

\* The cell is gone and exactly one outcome has happened, the one that the
\* task's end calls for: its result delivered by a poll (the context installed
\* or the error reported), or the closed channel reported.
Resolved ==
    /\ fg = "update" /\ ~pending /\ commands = <<>>
    /\ Cardinality(ResolvingPolls) = 1
    /\ installs + Reports = 1
    /\ job = "sent" =>
         /\ \E i \in ValuePolls : polls[i].val = job_result
         /\ IF Head(job_result).tag = "Ok"
            THEN gpu_context = <<Head(job_result).val>> /\ events.ready = 1
            ELSE gpu_context = <<>> /\ events.init_failed = 1
    /\ job = "cancelled" => (events.closed = 1 /\ gpu_context = <<>>)

\* C12: once the task has sent its result or dropped its sender while the
\* foreground has a poll still to run, the run reaches a state where the cell
\* is gone and exactly one of context installed, init error reported, closed
\* channel reported has happened, a sent result being the one delivered;
\* unless app.run() returns, which ends the ticking.
C12_EventuallyResolved ==
    (job \in {"sent", "cancelled"} /\ PollToCome) ~> (Resolved \/ fg = "exited")

C12_Witness ==
    /\ Resolved
    /\ dropped = ""
    /\ job = "sent"
    /\ Len(polls) >= 2 /\ polls[1].tag = "none"

\* The poller ran in this step.
PollMade == polls' # polls

\* C13: while the task has neither sent nor dropped its sender, a run of the
\* poller gets "none" and leaves the channel, the resources, the events and the
\* command queue as they were, so that the cell is still there after the
\* schedule's commands are applied; and in every such state of a running App
\* the foreground has a step to take, whatever the task does.
C13_PendingPollChangesNothing ==
    /\ [][(PollMade /\ job \in Unfinished) =>
            /\ polls'[Len(polls')].tag = "none"
            /\ pending /\ pending'
            /\ commands' = <<>>
            /\ UNCHANGED <<chan, gpu_context, installs, events, job, job_result>>]_vars
    /\ [](job \in Unfinished =>
            /\ fg \in {"update", "update_deferred"} => (pending /\ chan.rx_alive)
            /\ gpu_context = <<>> /\ installs = 0 /\ events = NoEvents
            /\ \A i \in PollIndexes : polls[i].tag = "none"
            /\ (fg # "exited" /\ ticks < MaxTicks) => ENABLED Foreground)

C13_Witness ==
    /\ job = "request_adapter"
    /\ fg = "update" /\ pending
    /\ Len(polls) = 3
    /\ \A i \in PollIndexes : polls[i].tag = "none"

\* The cell has been retired: the channel was created and its receiver is
\* gone, removed by the poller or dropped with the App.
Retired == job # "unspawned" /\ ~chan.rx_alive

\* C14: a value appears in the slot only by the step in which the one task
\* spawned sends its result, a step that uses up the sender and ends the task;
\* the task is spawned once and a sender used up or dropped stays so, hence at
\* most one value is ever written. Once the cell is retired it stays retired,
\* its slot stays empty whatever the task sends, and every run of the poller
\* finds no cell and attempts no take.
C14_SingleWriteThenRetired ==
    /\ [][/\ (chan'.slot # <<>> /\ chan'.slot # chan.slot) =>
               /\ job = "send" /\ job' = "sent"
               /\ chan.slot = <<>> /\ chan'.slot = job_result
               /\ chan.tx_alive /\ ~chan'.tx_alive
          /\ chan'.tx_alive => (chan.tx_alive \/ job = "unspawned")
          /\ job' = "request_adapter" => job \in {"unspawned", "request_adapter"}
          /\ job \in {"sent", "cancelled"} => job' = job
          /\ Retired =>
               /\ Retired'
               /\ chan'.slot = <<>>
               /\ PollMade => polls'[Len(polls')].tag = "absent"]_vars
    /\ [](/\ chan.slot # <<>> => (job = "sent" /\ chan.rx_alive)
          /\ job = "sent" => ~chan.tx_alive)

C14_Witness ==
    /\ Retired
    /\ dropped = ""
    /\ job = "sent"
    /\ polls # <<>> /\ polls[Len(polls)].tag = "absent"
    /\ ticks >= 3

(* ---------------------------------------------- core::memory claims, cont. *)
\* record() was called in this step; the snapshot it was given.
RecordMade == recorded' # recorded
Given == recorded'[Len(recorded')]

\* C15: in a record() whose append fails the snapshot is still recorded, the
\* counter is still incremented and the rotation test still runs on it: with
\* no rotation due the snapshot is the last of the history and the counter is
\* one more; with a rotation due, a successful one leaves the history empty and
\* the counter 0, a failed one leaves the counter one more and the history
\* either cleared or ending with the snapshot.
C15_AppendFailureSwallowed ==
    [][(RecordMade /\ last'.append # "ok") =>
          /\ recorded' = Append(recorded, Given)
          /\ last'.rot # "none" <=> writes_since_rotation + 1 >= max_snapshots
          /\ last'.rot = "none" =>
               /\ writes_since_rotation' = writes_since_rotation + 1
               /\ history' # <<>> /\ history'[Len(history')] = Given
          /\ last'.rot = "ok" =>
               /\ writes_since_rotation' = 0
               /\ history' = <<>>
          /\ last'.rot \notin {"none", "ok"} =>
               /\ writes_since_rotation' = writes_since_rotation + 1
               /\ history' = <<>> \/ history'[Len(history')] = Given
      ]_vars

C15_Witness ==
    /\ phase = "live" /\ last.op = "record"
    /\ last.append = "open_failed" /\ last.rot = "none"
    /\ writes_since_rotation = 1
    /\ history = <<Snapshot(1)>>
    /\ ~file.exists

\* C16: in a record() whose append succeeds the snapshot is in the history and
\* is the last line of the backing file when the rotation test runs: with no
\* rotation that is the state the call leaves; with a successful rotation the
\* archive is that file, the snapshot its last line, and the new backing file
\* and the history are empty.
C16_SnapshotArchivedByItsRotation ==
    [][(RecordMade /\ last'.append = "ok") =>
          /\ last'.rot = "none" =>
               /\ history' # <<>> /\ history'[Len(history')] = Given
               /\ file' = FileOf(Append(file.lines, Serialize(Given)))
          /\ last'.rot = "ok" =>
               /\ archives'[last'.archive] = FileOf(Append(file.lines, Serialize(Given)))
               /\ file' = EmptyFile
               /\ history' = <<>>
      ]_vars

C16_Witness ==
    /\ phase = "live" /\ last.op = "record"
    /\ last.append = "ok" /\ last.rot = "ok"
    /\ max_snapshots = 2
    /\ archives[last.archive] = FileOfSnapshots(<<Snapshot(1), Snapshot(2)>>)
    /\ file = EmptyFile

\* from_file has returned and no call has been made since: the file is the one
\* it read.
Restored == last.op = "from_file" /\ recorded = <<>> /\ calls = 0

\* The snapshots of the lines of ls that hold a JSON value, in the order of
\* the lines.
WellFormed(ls) ==
    LET IsJson(l) == l.kind = "json"
        js == SelectSeq(ls, IsJson)
    IN [k \in 1..Len(js) |-> js[k].val]

\* C19: from_file gives None exactly when the file is not there or cannot be
\* opened or a read of it fails; otherwise the log it gives holds the
\* snapshots of the file's well-formed lines, all of them and in file order,
\* whatever malformed or blank lines stand between them.
C19_FromFileSkipsMalformed ==
    Restored =>
        /\ phase = "none" <=> (~file.exists \/ last.append # "ok")
        /\ phase = "live" =>
             /\ history = WellFormed(file.lines)
             /\ base_path = DefaultPath

C19_Witness ==
    /\ Restored /\ phase = "live"
    /\ file.lines = <<Serialize(Snapshot(8)), Malformed, Blank, Serialize(Snapshot(9))>>
    /\ history = <<Snapshot(8), Snapshot(9)>>

\* C20: a log just returned by from_file has the counter at the number of
\* loaded records when that is below the capacity and at the capacity
\* otherwise; and when the file held at least capacity well-formed lines the
\* first record() made on the restored log tries to rotate.
C20_FromFileCounter ==
    /\ (Restored /\ phase = "live") =>
          writes_since_rotation =
             (IF Len(history) < max_snapshots THEN Len(history) ELSE max_snapshots)
    /\ (created_by = "from_file" /\ last.op = "record" /\ Len(recorded) = 1 /\ calls = 0
          /\ Len(last.epoch) = 1 /\ last.credit >= max_snapshots) =>
          last.rot # "none"

C20_Witness ==
    /\ created_by = "from_file"
    /\ last.op = "record" /\ Len(recorded) = 1 /\ calls = 0
    /\ last.credit = FromFileCapacity
    /\ last.rot = "ok"
    /\ Len(archives[last.archive].lines) = FromFileCapacity + 1

\* A call of average() or trend() was made in this step.
AverageMade == query' # query /\ query'.op = "average"
TrendMade == query' # query /\ query'.op = "trend"

\* The trailing window of n records of h.
Trailing(h, n) == LastN(h, Min(n, Len(h)))

\* The numbers the records of seq hold at key, in order.
Numbers(seq, key) ==
    LET Has(snapshot) == key \in DOMAIN snapshot /\ snapshot[key].kind = "number"
        with == SelectSeq(seq, Has)
    IN [i \in 1..Len(with) |-> with[i][key].val]

\* The sum of the numbers of ns as average() forms it: each taken as an f32
\* and added in order in f32.
RECURSIVE SumF32(_)
SumF32(ns) ==
    IF ns = <<>> THEN 0
    ELSE F32Add(SumF32(SubSeq(ns, 1, Len(ns) - 1)), AsF32(ns[Len(ns)]))

\* The sum of the numbers of ns.
RECURSIVE SumExact(_)
SumExact(ns) == IF ns = <<>> THEN 0 ELSE ns[1] + SumExact(Tail(ns))

\* The number n is one that an f32 holds.
InF32(n) == AsF32(n) = n

\* C17 as stated, wherever the mean is a whole number that an f32 holds:
\* average(f, w) is the arithmetic mean of the numbers held at f by the last
\* min(max(w, 1), len()) records, their sum over their count; it is None
\* exactly when that window holds no number at f; and the call leaves the log
\* as it was.
C17_Original ==
    [][AverageMade =>
          LET ns == Numbers(Trailing(history, Max(query'.window, 1)), query'.key)
          IN /\ query'.result = <<>> <=> ns = <<>>
             /\ (ns # <<>> /\ SumExact(ns) % Len(ns) = 0 /\ InF32(SumExact(ns) \div Len(ns))) =>
                  Head(query'.result).sum * Len(ns) = SumExact(ns) * Head(query'.result).count
             /\ UNCHANGED log_fields
      ]_vars

\* C17 amended: average(f, w) is the mean, formed in f32 arithmetic, of the
\* numbers held at f by the last min(max(w, 1), len()) records: each number
\* converted to f32 and added in record order in f32, the sum over their count,
\* the records with no number at f counting for nothing; it is None exactly
\* when that window holds no number at f, as on an empty log; and the call
\* leaves the log and its files as they were.
C17_AverageIsWindowMean ==
    [][AverageMade =>
          LET ns == Numbers(Trailing(history, Max(query'.window, 1)), query'.key)
          IN /\ query'.result = <<>> <=> ns = <<>>
             /\ ns # <<>> =>
                  /\ Head(query'.result).count = Len(ns)
                  /\ Head(query'.result).sum = SumF32(ns)
             /\ history = <<>> => query'.result = <<>>
             /\ UNCHANGED log_fields
      ]_vars

C17_Witness ==
    /\ query.op = "average" /\ query.key = "x" /\ query.window = 0
    /\ Len(history) = 3
    /\ history[3] = [x |-> JNum(5)]
    /\ query.result = <<[sum |-> 5, count |-> 1]>>

\* None of trend(): w < 2, len() < 2, or no number at key in the first record
\* of the trailing window of min(w, len()) records or in the last record.
TrendNone(h, key, w) ==
    \/ w < 2
    \/ Len(h) < 2
    \/ Numbers(<<Trailing(h, w)[1]>>, key) = <<>>
    \/ Numbers(<<h[Len(h)]>>, key) = <<>>

\* C18 as stated, wherever the difference is a number that an f32 holds:
\* trend(f, w) is None in the cases of TrendNone and otherwise the last
\* record's f minus the f of the first record of the window; the call leaves
\* the log as it was.
C18_Original ==
    [][TrendMade =>
          /\ query'.result = <<>> <=> TrendNone(history, query'.key, query'.window)
          /\ query'.result # <<>> =>
               LET diff == history[Len(history)][query'.key].val
                           - Trailing(history, query'.window)[1][query'.key].val
               IN InF32(diff) => Head(query'.result) = diff
          /\ UNCHANGED log_fields
      ]_vars

\* C18 amended: trend(f, w) is None when w < 2, when len() < 2, and when the
\* first record of the trailing window of min(w, len()) records or the last
\* record holds no number at f; otherwise it is the f32 difference of the last
\* record's f and that first record's f, each converted to f32 first, whatever
\* the records between them hold; and the call leaves the log and its files as
\* they were.
C18_TrendIsEndpointDifference ==
    [][TrendMade =>
          LET win == Trailing(history, query'.window)
              none == TrendNone(history, query'.key, query'.window)
          IN /\ query'.result = <<>> <=> none
             /\ ~none =>
                  query'.result =
                     <<F32Sub(AsF32(history[Len(history)][query'.key].val),
                              AsF32(win[1][query'.key].val))>>
             /\ UNCHANGED log_fields
      ]_vars

C18_Witness ==
    /\ query.op = "trend" /\ query.key = "x" /\ query.window = 2
    /\ history = <<[x |-> JNum(1)], [x |-> JNum(1)], [x |-> JNum(5)]>>
    /\ query.result = <<4>>

(* ------------------------------------------------------- claims C21..C30 *)
\* A call of flush() whose write_all returned Ok.
FlushSucceeded == calls' # calls /\ last'.op = "flush" /\ last'.append = "ok"

\* C21: a successful flush() leaves the backing file holding exactly the
\* in-memory sequence, one line per record in order, whatever the file held
\* before; it leaves the sequence and writes_since_rotation as they were; and
\* a second flush right after it would write the same file again.
C21_FlushRewritesFileFromMemory ==
    [][FlushSucceeded =>
          /\ file' = FileOfSnapshots(history)
          /\ Len(file'.lines) = Len(history)
          /\ UNCHANGED <<history, writes_since_rotation>>
          /\ WriteAll(file', history', "ok", 0) = file']_vars

\* A log restored from a file with lines that are not snapshots has been
\* flushed: the file now holds the two snapshots of the history and nothing
\* of what it held besides.
C21_Witness ==
    /\ last.op = "flush" /\ last.append = "ok"
    /\ created_by = "from_file"
    /\ Len(history) = 2
    /\ file = FileOfSnapshots(history)
    /\ file # ledger.initial

\* A call of rotate(archive_name) by the owner of the log, and one in which
\* every step of rotate_internal succeeded.
RotateMade == calls' # calls /\ last'.op = "rotate"
RotateSucceeded == RotateMade /\ last'.rot = "ok"

\* C22: a rotate(archive_name) in which every I/O step succeeds moves the
\* content of an existing backing file to the archive and creates no archive
\* when there is no backing file; either way the in-memory sequence is
\* emptied, an empty backing file is left at the original path and
\* writes_since_rotation is 0.
C22_SuccessfulRotate ==
    [][RotateSucceeded =>
          /\ archives' = IF file.exists
                         THEN [archives EXCEPT ![last'.archive] = file]
                         ELSE archives
          /\ history' = <<>>
          /\ file' = EmptyFile
          /\ writes_since_rotation' = 0]_vars

\* rotate() has moved a backing file with lines of its own to the archive of
\* the caller's choosing.
C22_Witness ==
    /\ last.op = "rotate" /\ last.rot = "ok"
    /\ recorded # <<>>
    /\ archives[last.archive].exists
    /\ archives[last.archive].lines # <<>>
    /\ history = <<>> /\ file = EmptyFile /\ writes_since_rotation = 0

\* The last call of record(), flush() or rotate() met an I/O failure: its
\* append or rewrite failed (open, write), or a step of its rotation did
\* (create-directory, rename, create).
CallFailed ==
    /\ last.op \in {"record", "flush", "rotate"}
    /\ \/ last.append \in {"open_failed", "write_failed"}
       \/ last.rot \in {"mkdir_failed", "rename_failed", "create_failed"}

\* The calls the bounds of the model still have room for.
RoomForCall == Len(recorded) + calls < MaxOps

\* average() and trend() take &self and have no guard but the log being there:
\* the log answers them when each of them, on every key and window, returns
\* None or Some of one value.
QueriesAnswered ==
    /\ phase = "live"
    /\ \A key \in Keys, window \in Windows :
          /\ Len(Average(history, key, window)) <= 1
          /\ Len(Trend(history, key, window)) <= 1

\* C23: an I/O failure in record(), flush() or rotate() reaches no terminating
\* or stuck state: the call has returned with the log alive, and the log
\* accepts average and trend, and record, flush and rotate, after it.
C23_FailuresAreSwallowed ==
    CallFailed =>
        /\ phase = "live"
        /\ QueriesAnswered
        /\ RoomForCall => (ENABLED Record /\ ENABLED Flush /\ ENABLED RotateCall)

\* A record() whose append and whose rotation both failed has returned, with
\* room for a further call.
C23_Witness ==
    /\ last.op = "record"
    /\ last.append = "write_failed"
    /\ last.rot = "rename_failed"
    /\ phase = "live"
    /\ RoomForCall

\* C24: new(capacity) returns an empty log with writes_since_rotation = 0 and
\* an effective capacity of max(capacity, 1); the capacity that eviction and
\* the rotation trigger of such a log use is never 0.
C24_NewClampsCapacity ==
    /\ (created_by = "new" /\ last.op = "new") =>
          /\ phase = "live"
          /\ history = <<>>
          /\ writes_since_rotation = 0
          /\ max_snapshots = IF last.capacity >= 1 THEN last.capacity ELSE 1
    /\ created_by = "new" => max_snapshots >= 1

\* new(0) has returned a log of capacity 1.
C24_Witness ==
    /\ created_by = "new" /\ last.op = "new"
    /\ last.capacity = 0
    /\ max_snapshots = 1
    /\ history = <<>> /\ writes_since_rotation = 0

\* C25: record(s) on a log whose in-memory sequence already holds capacity
\* records leaves, after its push-and-evict step, the old sequence without
\* its first element followed by s: eviction drops the oldest record and no
\* other.
C25_EvictionIsFifo ==
    [][(RecordMade /\ Len(history) = max_snapshots) =>
          /\ last'.evicted
          /\ last'.pushed = Append(Tail(history), Given)
          /\ Len(last'.pushed) = max_snapshots]_vars

\* A log of capacity 2 whose rotations failed at the rename has recorded a
\* third snapshot: the first one was evicted and the other two are held.
C25_Witness ==
    /\ created_by = "new"
    /\ max_snapshots = 2
    /\ last.op = "record" /\ last.evicted /\ last.rot = "rename_failed"
    /\ recorded = <<Snapshot(1), Snapshot(2), Snapshot(3)>>
    /\ last.pushed = <<Snapshot(2), Snapshot(3)>>
    /\ history = last.pushed

\* C26: for a log created by new(), while every rotation step has succeeded,
\* writes_since_rotation equals len() after every call, len() is at most
\* capacity - 1 once record() has returned, and no record() has taken the
\* eviction branch.
C26_CounterTracksLength ==
    (phase = "live" /\ created_by = "new" /\ rotations_ok) =>
        /\ writes_since_rotation = Len(history)
        /\ Len(history) <= max_snapshots - 1
        /\ last.op = "record" => ~last.evicted

\* A log of capacity 2 has recorded three snapshots, rotated at the second,
\* and holds the third alone.
C26_Witness ==
    /\ created_by = "new" /\ rotations_ok
    /\ max_snapshots = 2
    /\ Len(recorded) = 3
    /\ last.op = "record" /\ last.rot = "none"
    /\ history = <<Snapshot(3)>>
    /\ writes_since_rotation = 1

\* The snapshots of a sequence.
Range(seq) == {seq[i] : i \in 1..Len(seq)}

\* The last call was a record() whose rotation succeeded.
RecordRotated == last.op = "record" /\ last.rot = "ok"

\* C27: latest() returns the last element of the in-memory sequence, or None
\* when it is empty; right after a record() that triggered a successful
\* rotation len() is 0, latest() is None and average and trend return None
\* for every field and window; after a successful rotation the sequence
\* holds only snapshots recorded since.
C27_AnalyticsStartAfresh ==
    /\ phase = "live" =>
          \/ history = <<>> /\ Latest(history) = <<>>
          \/ history # <<>> /\ Latest(history) = <<history[Len(history)]>>
    /\ (last.op = "record" /\ history # <<>>) =>
          Latest(history) = <<recorded[Len(recorded)]>>
    /\ RecordRotated =>
          /\ Len(history) = 0
          /\ Latest(history) = <<>>
          /\ \A key \in Keys, window \in Windows :
                /\ Average(history, key, window) = <<>>
                /\ Trend(history, key, window) = <<>>
    /\ ledger.names # <<>> => Range(history) \subseteq Range(epoch)

\* A log of capacity 2 has just rotated at its second record: the two
\* snapshots are in the archive and none is left for the queries.
C27_Witness ==
    /\ RecordRotated
    /\ max_snapshots = 2
    /\ recorded = <<Snapshot(1), Snapshot(2)>>
    /\ last.pushed = recorded
    /\ history = <<>>
    /\ Latest(history) = <<>>
    /\ archives[last.archive].lines = FileOfSnapshots(recorded).lines

\* A call that ran rotate: rotate() itself, or a record() whose counter
\* reached the capacity.
RotateRan == CallMade /\ last'.rot # "none"

\* The log as rotate found it in this step: as it was for rotate() called by
\* the owner, and after the push, the append and the count for record().
BeforeRotate ==
    IF last'.op = "rotate"
    THEN [history |-> history, file |-> file, wsr |-> writes_since_rotation]
    ELSE [history |-> last'.pushed,
          file |-> AppendSnapshot(file, Given, last'.append),
          wsr |-> CountWrite(writes_since_rotation, last'.append)]

\* The log as rotate left it.
AfterRotate == [history |-> history', file |-> file', wsr |-> writes_since_rotation']

\* C28 as stated: rotate is all-or-nothing; every step succeeds (sequence
\* cleared, live file empty, counter 0) or a failing step leaves the sequence,
\* the backing file and writes_since_rotation exactly as they were.
C28_Original ==
    [][RotateRan =>
          IF last'.rot = "ok"
          THEN AfterRotate = [history |-> <<>>, file |-> EmptyFile, wsr |-> 0]
          ELSE AfterRotate = BeforeRotate]_vars

\* C28: a rotate whose every step succeeds leaves the sequence cleared, the
\* live file empty and the counter 0; one that fails creating the directory
\* or renaming leaves sequence, backing file and counter as they were; one
\* that fails creating the new backing file leaves the counter as it was
\* but the sequence cleared and no backing file, the file that was there
\* having become the archive.
C28_RotateFailsStepwise ==
    [][RotateRan =>
          CASE last'.rot = "ok" ->
                 AfterRotate = [history |-> <<>>, file |-> EmptyFile, wsr |-> 0]
            [] last'.rot \in {"mkdir_failed", "rename_failed"} ->
                 AfterRotate = BeforeRotate
            [] last'.rot = "create_failed" ->
                 /\ AfterRotate = [history |-> <<>>, file |-> NoFile, wsr |-> BeforeRotate.wsr]
                 /\ BeforeRotate.file.exists =>
                       archives'[last'.archive] = BeforeRotate.file]_vars

\* The rotation of a record() failed at the creation of the new backing file:
\* the two snapshots are in the archive, the sequence is empty, there is no
\* backing file and the counter still stands at 2.
C28_Witness ==
    /\ last.op = "record" /\ last.rot = "create_failed"
    /\ last.pushed = <<Snapshot(1), Snapshot(2)>>
    /\ history = <<>>
    /\ ~file.exists
    /\ writes_since_rotation = 2
    /\ archives[last.archive].lines = FileOfSnapshots(last.pushed).lines

\* The contexts the queued commands would install.
QueuedContexts ==
    {commands[i].val : i \in {j \in 1..Len(commands) : commands[j].op = "insert_context"}}

\* C29: the device context is installed only when the job produced an Ok
\* result, and it is the context the job produced; once the commands queued
\* by a poll have been applied, at every tick boundary, a context that is
\* present implies that the pending cell is absent.
C29_ContextComesFromOkResult ==
    /\ \A c \in QueuedContexts : job_result = <<OkResult(c)>>
    /\ installs > 0 => \E c \in Contexts : job_result = <<OkResult(c)>>
    /\ gpu_context # <<>> =>
          /\ job = "sent"
          /\ installs = 1
          /\ job_result = <<OkResult(Head(gpu_context))>>
    /\ (fg = "update" /\ gpu_context # <<>>) => ~pending

\* At a tick boundary the context the job built is installed and the pending
\* cell is gone.
C29_Witness ==
    /\ fg = "update"
    /\ ticks >= 1
    /\ job_result = <<OkResult("adapterB")>>
    /\ gpu_context = <<"adapterB">>
    /\ ~pending
    /\ events.ready = 1

\* No name occurs twice in the sequence.
Distinct(names) ==
    \A i, j \in 1..Len(names) : names[i] = names[j] => i = j

\* The lines of the archives of these names, one archive after the other.
RECURSIVE ArchivedLines(_)
ArchivedLines(names) ==
    IF names = <<>> THEN <<>>
    ELSE archives[Head(names)].lines \o ArchivedLines(Tail(names))

\* A log created by new() over no backing file or an empty one, with no I/O
\* failure so far and no archive name used twice.
LosslessRun ==
    /\ created_by = "new"
    /\ ledger.initial.lines = <<>>
    /\ failures = 0
    /\ Distinct(ledger.names)

\* C30: no recorded snapshot is lost. For a log created by new() on an empty
\* backing file, with no I/O failure and pairwise distinct archive names, the
\* archives in rotation order followed by the lines of the live backing file
\* are the snapshots recorded so far, in order.
C30_NoSnapshotLost ==
    LosslessRun =>
        ArchivedLines(ledger.names) \o file.lines = FileOfSnapshots(recorded).lines

\* A log of capacity 1 has rotated at each of its two records, in different
\* seconds: each archive holds one of the snapshots.
C30_Witness ==
    /\ LosslessRun
    /\ max_snapshots = 1
    /\ last.op = "record"
    /\ Len(recorded) = 2
    /\ Len(ledger.names) = 2
    /\ archives[ledger.names[1]].lines = <<Serialize(Snapshot(1))>>
    /\ archives[ledger.names[2]].lines = <<Serialize(Snapshot(2))>>
    /\ file = EmptyFile

(* ------------------------------------------------------------ claim C31 *)
\* C31: for the MemoryField of core/mod.rs, which has no rotation, after N
\* record() calls with max_snapshots = C the history holds exactly the last
\* min(N, C) snapshots in recording order; with C = 0, the derived Default,
\* the history is empty after every record().
C31_HistoryIsLastRecords ==
    LET N == Len(integrated)
        C == memory_field.max_snapshots
    IN /\ Len(memory_field.history) = Min(N, C)
       /\ memory_field.history = LastN(integrated, Min(N, C))
       /\ C = 0 => memory_field.history = <<>>

\* A field of capacity 2 has recorded three snapshots that differ: it holds
\* the second and the third, and the first is gone.
C31_Witness ==
    /\ core_phase = "live"
    /\ memory_field.max_snapshots = 2
    /\ Len(integrated) = 3
    /\ integrated[1] # integrated[2] /\ integrated[1] # integrated[3]
    /\ memory_field.history = <<integrated[2], integrated[3]>>

====
